---------------------------- MODULE Spec2Model ----------------------------
(***************************************************************************)
(* A model of the terminal ray-casting shooter in src/main.cpp: the frame  *)
(* loop of main, the input handling of both builds (PLATFORM_UNIX reads    *)
(* characters, PLATFORM_WINDOWS polls key states), shootBullet,            *)
(* updateBullets, and the parts of render that read the game state.        *)
(*                                                                         *)
(* Numbers.  A float that holds a position, a velocity or a length is an   *)
(* integer count of 2^-24 map units, and every store into a float          *)
(* variable goes through F32, which rounds to the 24 significant bits of   *)
(* an IEEE single (ties to even).  Below 0.5 the grid of the model is      *)
(* 2^-24, coarser than a single.  Time is counted in 1/32 s and angles in  *)
(* units of 3.14159f/32, so that playerRotSpeed * fElapsedTime is a whole  *)
(* number of angle units; sin and cos are tables of 2^-19 fractions over   *)
(* one turn of 64 units.  The ray length distanceToWall, which the code    *)
(* builds by adding 0.1f repeatedly, is kept as an exact single            *)
(* (mantissa, exponent).                                                   *)
(***************************************************************************)
EXTENDS Integers, Sequences, FiniteSets, TLC

----------------------------------------------------------------------------
(* Program constants *)

SCREEN_WIDTH == 120
SCREEN_HEIGHT == 40
MAP_WIDTH == 16
MAP_HEIGHT == 16
BULLET_TRAIL_LENGTH == 5
MAX_BULLETS == 10
playerSpeed == 5
bulletSpeed == 5
playerFOV == 8             \* 3.14159f / 4.0f, in angle units of 3.14159f/32
TURN == 64                 \* 2.0f * 3.14159f, in angle units

----------------------------------------------------------------------------
(* Bounds of the model *)

MaxFrames == 3             \* iterations of the game loop
MaxKeys == 3               \* commands received over a run

\* Elapsed times of a frame, in 1/32 s: about one frame at the target rate,
\* a quarter of a second, and a second (a stalled frame).
ElapsedSet == {1, 8, 32}

----------------------------------------------------------------------------
(* Arithmetic *)

ONE == 2^24                \* one map unit
SINONE == 2^19             \* sin, cos = 1.0

Abs(v) == IF v < 0 THEN -v ELSE v
Sgn(v) == IF v < 0 THEN -1 ELSE 1

\* static_cast<int>(float) and (int)float: truncation toward zero.
CInt(v) == IF v >= 0 THEN v \div ONE ELSE -((-v) \div ONE)

\* The spacing of IEEE singles around magnitude a (a >= 0), in 2^-24 units.
Ulp(a) ==
  IF a < 2^24 THEN 1
  ELSE IF a < 2^25 THEN 2
  ELSE IF a < 2^26 THEN 4
  ELSE IF a < 2^27 THEN 8
  ELSE IF a < 2^28 THEN 16
  ELSE IF a < 2^29 THEN 32
  ELSE IF a < 2^30 THEN 64
  ELSE 128

\* Round to nearest, ties to even, on the grid of spacing u.
RoundTo(a, u) ==
  LET q == a \div u
      r == a % u
  IN  IF 2 * r < u THEN q * u
      ELSE IF 2 * r > u THEN (q + 1) * u
      ELSE (q + (q % 2)) * u

\* The value a float variable holds after v is stored into it.
F32(v) == Sgn(v) * RoundTo(Abs(v), Ulp(Abs(v)))

\* d * s / 2^19 for 0 <= d < 2^30 and 0 <= s <= 2^19, in 10-bit limbs so
\* that no partial product leaves 32 bits.
MulPos(d, s) ==
  IF s = SINONE THEN d
  ELSE LET d2 == d \div 2^20
           d1 == (d \div 2^10) % 2^10
           d0 == d % 2^10
           s1 == s \div 2^10
           s0 == s % 2^10
       IN  d2 * s1 * 2^11 + (d2 * s0 + d1 * s1) * 2
             + (d1 * s0 + d0 * s1) \div 2^9 + (d0 * s0) \div 2^19

\* The product of a length d (2^-24 units) and a sin/cos value s.
Mul19(d, s) == Sgn(d) * Sgn(s) * MulPos(Abs(d), Abs(s))

\* sin and cos of k * 3.14159f/32 for k = 0..63, as 2^-19 fractions.
SinTable ==
  <<0, 51389, 102283, 152193, 200636, 247147, 291279, 332605,
    370727, 405280, 435929, 462381, 484379, 501712, 514214, 521763,
    524288, 521763, 514214, 501713, 484379, 462381, 435930, 405281,
    370728, 332606, 291280, 247149, 200637, 152194, 102285, 51390,
    1, -51388, -102282, -152191, -200635, -247146, -291277, -332604,
    -370726, -405279, -435929, -462380, -484378, -501712, -514214, -521763,
    -524288, -521764, -514214, -501713, -484380, -462382, -435931, -405282,
    -370729, -332607, -291281, -247150, -200639, -152195, -102286, -51392>>

CosTable ==
  <<524288, 521763, 514214, 501712, 484379, 462381, 435930, 405280,
    370728, 332605, 291279, 247148, 200637, 152193, 102284, 51390,
    1, -51389, -102283, -152192, -200636, -247147, -291278, -332604,
    -370727, -405279, -435929, -462380, -484379, -501712, -514214, -521763,
    -524288, -521764, -514214, -501713, -484380, -462381, -435930, -405281,
    -370729, -332606, -291280, -247149, -200638, -152195, -102285, -51391,
    -2, 51387, 102281, 152191, 200634, 247146, 291277, 332603,
    370726, 405279, 435928, 462380, 484378, 501712, 514213, 521763>>

Sin(a) == SinTable[(a % TURN) + 1]
Cos(a) == CosTable[(a % TURN) + 1]

----------------------------------------------------------------------------
(* The world map *)

\* A map is kept by its rows: the set of columns that hold '#' in each.
\* The 16 rows initGame appends.
GameMap ==
  << 0..15, {0, 15}, {0, 9, 15}, {0, 9, 15}, {0, 15}, {0, 8, 9, 10, 11, 15},
     {0, 15}, {0, 15}, {0, 15}, {0, 15}, {0, 7, 8, 15}, {0, 7, 8, 15},
     {0, 15}, {0, 15}, {0, 15}, 0..15 >>

\* A 16x16 map that is empty except for its border walls.
BorderMap ==
  [r \in 1..MAP_HEIGHT |->
     IF r \in {1, MAP_HEIGHT} THEN 0..(MAP_WIDTH - 1) ELSE {0, MAP_WIDTH - 1}]

\* The indices of the string m, and m[idx] == '#' for an index of the string.
MapIndices == 0..(MAP_WIDTH * MAP_HEIGHT - 1)
IsWall(m, idx) == (idx % MAP_WIDTH) \in m[(idx \div MAP_WIDTH) + 1]

----------------------------------------------------------------------------
(* State *)

VARIABLES
  platform,        \* "unix" or "windows": the build the preprocessor selects
  map,             \* std::string map
  playerX, playerY, playerA,
  bullets,         \* std::vector<Bullet> bullets
  enemies,         \* std::vector<Enemy> enemies
  bulletsFired, activeBullets,
  gameRunning,
  fElapsedTime,
  spacePressed,    \* the static local of the Windows VK_SPACE branch
  pc,              \* position in main: "loop", "input", "update", "render", "done"
  keyIdx,          \* Windows: the next GetAsyncKeyState test, 1..8
  bi,              \* updateBullets: the next slot of the range-for, 1..10
  frames, keysRead,
  ray,             \* render: the locals of the ray-casting loop
  screen,          \* render: the terminal size and the cells written outside the buffer
  proc,            \* the process: terminal mode, runs of restoreTerminal, exit status
  hist             \* what the last steps did, for stating the properties

vars == <<platform, map, playerX, playerY, playerA, bullets, enemies,
          bulletsFired, activeBullets, gameRunning, fElapsedTime,
          spacePressed, pc, keyIdx, bi, frames, keysRead, ray,
          screen, proc, hist>>


InitBullet ==
  [x |-> 0, y |-> 0, dx |-> 0, dy |-> 0, active |-> FALSE,
   trailX |-> [i \in 1..BULLET_TRAIL_LENGTH |-> 0],
   trailY |-> [i \in 1..BULLET_TRAIL_LENGTH |-> 0]]

InitEnemies ==
  << [x |-> 10 * ONE, y |-> 10 * ONE, alive |-> TRUE],
     [x |-> 5 * ONE,  y |-> 5 * ONE,  alive |-> TRUE],
     [x |-> 12 * ONE, y |-> 3 * ONE,  alive |-> TRUE] >>

\* Singles as mantissa and exponent, m * 2^e with 2^23 <= m < 2^24, or 0.
Zero == [m |-> 0, e |-> 0]

\* render has not asked for the terminal size yet.
InitScreen == [termWidth |-> 0, termHeight |-> 0, stage |-> "idle", stray |-> {}]

\* The locals of the ray-casting loop before render has run.
InitRay ==
  [col |-> 0, rayAngle |-> 0, distanceToWall |-> Zero, hitWall |-> FALSE,
   rayX |-> 0, rayY |-> 0, phase |-> "idle"]

InitHist ==
  [lastCmd  |-> "none",   \* the command handled last in this frame
   rejected |-> FALSE,    \* the last move was undone by the collision test
   readOK   |-> TRUE,     \* every map read so far used a column and a row of the map
   shots    |-> 0,        \* calls of shootBullet in this frame
   hold     |-> 0,        \* consecutive frames, this one included, with VK_SPACE down
   slot     |-> 0,        \* the bullet slot updateBullets handled last
   outcome  |-> "none",   \* and what became of it: "out", "wall", "enemy", "fly"
   victim   |-> 0,        \* the enemy that bullet killed, or 0
   drawn    |-> {},       \* the enemies the last render painted
   counted  |-> 0,        \* aliveEnemies of the last render's stats line
   shown    |-> {},       \* the bullet slots the last render found in the field of view
   updates  |-> 0,        \* completed calls of updateBullets
   renders  |-> 0]        \* completed calls of render

\* The process before initTerminal: the terminal as the shell left it.
InitProc == [term |-> "cooked", restores |-> 0, exit |-> "none"]

\* initTerminal: the settings are saved and the terminal is put into raw mode.
initTerminal(p) == [p EXCEPT !.term = "raw"]

\* restoreTerminal: tcsetattr(STDIN_FILENO, TCSAFLUSH, &orig_termios).
restoreTerminal(p) == [p EXCEPT !.term = "cooked", !.restores = @ + 1]

\* The globals after initGame, which on the Unix build ends with initTerminal.
InitGame ==
  /\ map = GameMap
  /\ playerX = 8 * ONE
  /\ playerY = 8 * ONE
  /\ playerA = 0
  /\ bullets = [i \in 1..MAX_BULLETS |-> InitBullet]
  /\ enemies = InitEnemies
  /\ bulletsFired = 0
  /\ activeBullets = 0
  /\ gameRunning = TRUE
  /\ fElapsedTime = 0
  /\ spacePressed = FALSE
  /\ pc = "start"
  /\ keyIdx = 1
  /\ bi = 1
  /\ frames = 0
  /\ keysRead = 0
  /\ ray = InitRay
  /\ screen = InitScreen
  /\ proc = IF platform = "unix" THEN initTerminal(InitProc) ELSE InitProc
  /\ hist = InitHist

Init ==
  /\ platform \in {"unix", "windows"}
  /\ InitGame

----------------------------------------------------------------------------
(* Movement and collision (main, both builds) *)

InMap(col, row) ==
  col >= 0 /\ col < MAP_WIDTH /\ row >= 0 /\ row < MAP_HEIGHT

\* What map[idx] == '#' can yield.  Index 256 is map[size()], the terminating
\* character; any other index outside the string is an out-of-range read,
\* whose value is not determined.
IsWallAt(idx) ==
  IF idx \in MapIndices THEN {IsWall(map, idx)}
  ELSE IF idx = MAP_WIDTH * MAP_HEIGHT THEN {FALSE}
  ELSE BOOLEAN

\* The step sin(playerA) * playerSpeed * fElapsedTime, resp. cos, in 2^-24 units.
StepSin == Sin(playerA) * playerSpeed * fElapsedTime
StepCos == Cos(playerA) * playerSpeed * fElapsedTime

MoveDX(cmd) ==
  CASE cmd = "w" -> StepSin [] cmd = "s" -> -StepSin
    [] cmd = "a" -> -StepCos [] cmd = "d" -> StepCos

MoveDY(cmd) ==
  CASE cmd = "w" -> StepCos [] cmd = "s" -> -StepCos
    [] cmd = "a" -> StepSin [] cmd = "d" -> -StepSin

\* The player's coordinate after the collision test: the candidate c, or the
\* candidate with the step d taken back.
Settle(c, d, wall) == IF wall THEN F32(c - d) ELSE c

\* case 'w', 's', 'a', 'd' (GetAsyncKeyState('W'), ...): move, test the map
\* cell of the new position, take the step back on '#'.
Move(cmd, h) ==
  LET dx  == MoveDX(cmd)
      dy  == MoveDY(cmd)
      cx  == F32(playerX + dx)
      cy  == F32(playerY + dy)
      col == CInt(cx)
      row == CInt(cy)
  IN  \E wall \in IsWallAt(row * MAP_WIDTH + col) :
        /\ playerX' = Settle(cx, dx, wall)
        /\ playerY' = Settle(cy, dy, wall)
        /\ hist' = [h EXCEPT !.lastCmd = cmd, !.rejected = wall,
                             !.readOK = @ /\ InMap(col, row)]
        /\ UNCHANGED <<playerA, bullets, bulletsFired, activeBullets,
                       gameRunning, spacePressed>>

\* A turn that also takes the step of 'w'.
TurnAndStep(cmd, h) ==
  /\ playerA' = IF cmd = "q" THEN playerA - fElapsedTime
                             ELSE playerA + fElapsedTime
  /\ playerX' = F32(playerX + MoveDX("w"))
  /\ playerY' = F32(playerY + MoveDY("w"))
  /\ hist' = [h EXCEPT !.lastCmd = cmd, !.rejected = FALSE]
  /\ UNCHANGED <<bullets, bulletsFired, activeBullets, gameRunning,
                 spacePressed>>

\* case 'q', 'e' (VK_LEFT, VK_RIGHT): playerA -+= playerRotSpeed * fElapsedTime.
Turn(cmd, h) ==
  /\ playerA' = IF cmd = "q" THEN playerA - fElapsedTime
                             ELSE playerA + fElapsedTime
  /\ hist' = [h EXCEPT !.lastCmd = cmd, !.rejected = FALSE]
  /\ UNCHANGED <<playerX, playerY, bullets, bulletsFired, activeBullets,
                 gameRunning, spacePressed>>

----------------------------------------------------------------------------
(* shootBullet *)

Min(S) == CHOOSE m \in S : \A n \in S : m <= n

TENTH == 1677722           \* 0.1f in 2^-24 units

\* The slot shootBullet fills: position and velocity from the player, the
\* trail seeded behind the muzzle.
FiredBullet ==
  [x |-> playerX, y |-> playerY,
   dx |-> F32(Sin(playerA) * bulletSpeed * 32),
   dy |-> F32(Cos(playerA) * bulletSpeed * 32),
   active |-> TRUE,
   trailX |-> [i \in 1..BULLET_TRAIL_LENGTH |->
                 F32(playerX - Mul19(TENTH * (i - 1), Sin(playerA)))],
   trailY |-> [i \in 1..BULLET_TRAIL_LENGTH |->
                 F32(playerY - Mul19(TENTH * (i - 1), Cos(playerA)))]]

FreeSlots == {i \in DOMAIN bullets : ~bullets[i].active}

\* shootBullet without the activeBullets++ of line 216.
shootBulletUncounted ==
  IF activeBullets >= MAX_BULLETS \/ FreeSlots = {}
  THEN UNCHANGED <<bullets, bulletsFired, activeBullets>>
  ELSE /\ bullets' = [bullets EXCEPT ![Min(FreeSlots)] = FiredBullet]
       /\ bulletsFired' = bulletsFired + 1
       /\ UNCHANGED activeBullets

\* shootBullet with bulletsFired++ ahead of the test of line 186.
shootBulletCountsDropped ==
  IF activeBullets >= MAX_BULLETS \/ FreeSlots = {}
  THEN bulletsFired' = bulletsFired + 1 /\ UNCHANGED <<bullets, activeBullets>>
  ELSE /\ bullets' = [bullets EXCEPT ![Min(FreeSlots)] = FiredBullet]
       /\ bulletsFired' = bulletsFired + 1
       /\ activeBullets' = activeBullets + 1

shootBullet ==
  IF activeBullets >= MAX_BULLETS \/ FreeSlots = {}
  THEN UNCHANGED <<bullets, bulletsFired, activeBullets>>
  ELSE /\ bullets' = [bullets EXCEPT ![Min(FreeSlots)] = FiredBullet]
       /\ bulletsFired' = bulletsFired + 1
       /\ activeBullets' = activeBullets + 1

\* case ' ' (Unix): every space character read calls shootBullet.
Fire(h) ==
  /\ shootBullet
  /\ hist' = [h EXCEPT !.lastCmd = "fire", !.rejected = FALSE, !.shots = @ + 1]
  /\ UNCHANGED <<playerX, playerY, playerA, gameRunning, spacePressed>>

\* GetAsyncKeyState(VK_SPACE) (Windows): the static spacePressed is flipped
\* on every frame that finds the key down, and shootBullet runs when it was
\* false.
FireWindows(h) ==
  /\ IF ~spacePressed
     THEN /\ shootBullet
          /\ spacePressed' = TRUE
          /\ hist' = [h EXCEPT !.lastCmd = "fire", !.rejected = FALSE,
                               !.shots = @ + 1]
     ELSE /\ spacePressed' = FALSE
          /\ hist' = [h EXCEPT !.lastCmd = "fire", !.rejected = FALSE]
          /\ UNCHANGED <<bullets, bulletsFired, activeBullets>>
  /\ UNCHANGED <<playerX, playerY, playerA, gameRunning>>

\* case 27 (VK_ESCAPE)
Quit(h) ==
  /\ gameRunning' = FALSE
  /\ hist' = [h EXCEPT !.lastCmd = "quit", !.rejected = FALSE]
  /\ UNCHANGED <<playerX, playerY, playerA, bullets, bulletsFired,
                 activeBullets, spacePressed>>

----------------------------------------------------------------------------
(* updateBullets: one step per active slot of the range-for *)

\* The step of a frame is lost: the bullet does not move.
VelStepLost(v) == v - v

\* v * elapsedTime for a velocity v in map units per second.
VelStep(v) == (v \div 32) * fElapsedTime + ((v % 32) * fElapsedTime) \div 32

\* The position is stored at the front of the trail, which is not shifted.
AdvanceUnshifted(b) ==
  [b EXCEPT
     !.trailX[1] = b.x,
     !.trailY[1] = b.y,
     !.x = F32(b.x + F32(VelStep(b.dx))),
     !.y = F32(b.y + F32(VelStep(b.dy)))]

\* Shift the trail, store the position at its front, then move.
Advance(b) ==
  [b EXCEPT
     !.trailX = [i \in 1..BULLET_TRAIL_LENGTH |->
                   IF i = 1 THEN b.x ELSE b.trailX[i - 1]],
     !.trailY = [i \in 1..BULLET_TRAIL_LENGTH |->
                   IF i = 1 THEN b.y ELSE b.trailY[i - 1]],
     !.x = F32(b.x + F32(VelStep(b.dx))),
     !.y = F32(b.y + F32(VelStep(b.dy)))]

HALF == ONE \div 2         \* 0.5f, the hit radius

\* sqrt(ddx * ddx + ddy * ddy) < 0.5f, compared as squares on a 2^-15 grid.
Near(b, en) ==
  LET ddx == Abs(b.x - en.x)
      ddy == Abs(b.y - en.y)
  IN  /\ ddx < HALF
      /\ ddy < HALF
      /\ (ddx \div 2^9) * (ddx \div 2^9) + (ddy \div 2^9) * (ddy \div 2^9)
           < 2^14 * 2^14

\* The enemy loop without the test of enemy.alive.
InRangeDeadOrAlive(b) == {j \in DOMAIN enemies : Near(b, enemies[j])}

\* The enemies the inner loop would kill for bullet b: alive and in range.
InRange(b) == {j \in DOMAIN enemies : enemies[j].alive /\ Near(b, enemies[j])}

\* The tests without the bounds test: a bullet outside the map flies on.
OutcomeUnbounded(b) ==
  LET mapX == CInt(b.x)
      mapY == CInt(b.y)
  IN  IF ~InMap(mapX, mapY) THEN "fly"
      ELSE IF IsWall(map, mapY * MAP_WIDTH + mapX) THEN "wall"
      ELSE IF InRange(b) # {} THEN "enemy"
      ELSE "fly"

\* What happens to the moved bullet b: the bounds test, then the wall test,
\* then the enemy loop.
Outcome(b) ==
  LET mapX == CInt(b.x)
      mapY == CInt(b.y)
  IN  IF ~InMap(mapX, mapY) THEN "out"
      ELSE IF IsWall(map, mapY * MAP_WIDTH + mapX) THEN "wall"
      ELSE IF InRange(b) # {} THEN "enemy"
      ELSE "fly"

\* A bullet that an enemy hit does not stop.
SurvivesThrough(o) == o \in {"fly", "enemy"}

\* The bullet stays active only when none of the three tests took it.
Survives(o) == o = "fly"

\* The slots the range-for still has to visit that hold an active bullet.
Pending == {i \in DOMAIN bullets : i >= bi /\ bullets[i].active}

UpdateBullet ==
  /\ pc = "update"
  /\ Pending # {}
  /\ LET i == Min(Pending)
         b == Advance(bullets[i])
         o == Outcome(b)
         v == IF o = "enemy" THEN Min(InRange(b)) ELSE 0
     IN  /\ bullets' = [bullets EXCEPT ![i] = [b EXCEPT !.active = Survives(o)]]
         /\ activeBullets' = IF Survives(o) THEN activeBullets
                                            ELSE activeBullets - 1
         /\ enemies' = IF o = "enemy"
                       THEN [enemies EXCEPT ![v].alive = FALSE]
                       ELSE enemies
         /\ bi' = i + 1
         /\ hist' = [hist EXCEPT !.slot = i, !.outcome = o, !.victim = v]
  /\ UNCHANGED <<screen, proc, ray, platform, map, playerX, playerY, playerA, bulletsFired,
                 gameRunning, fElapsedTime, spacePressed, pc, keyIdx,
                 frames, keysRead>>

\* The range-for is past the last active slot: updateBullets returns.
EndUpdate ==
  /\ pc = "update"
  /\ Pending = {}
  /\ pc' = "render"
  /\ bi' = 1
  /\ hist' = [hist EXCEPT !.updates = @ + 1]
  /\ UNCHANGED <<screen, proc, ray, platform, map, playerX, playerY, playerA, bullets, enemies,
                 bulletsFired, activeBullets, gameRunning, fElapsedTime,
                 spacePressed, keyIdx, frames, keysRead>>

----------------------------------------------------------------------------
(* render: the sprite projection *)

\* u_k x v for the direction u_k of angle k (from the x axis toward y):
\* positive when v = (dx, dy) lies counterclockwise of u_k.
Cross(k, dy, dx) == Mul19(dy, Cos(k)) - Mul19(dx, Sin(k))

\* The largest j in lo..hi with u_j at or clockwise of v, given that u_lo is.
RECURSIVE AngleFloor(_, _, _, _)
AngleFloor(lo, hi, dy, dx) ==
  IF lo = hi THEN lo
  ELSE LET mid == (lo + hi + 1) \div 2
       IN  IF Cross(mid, dy, dx) >= 0
           THEN AngleFloor(mid, hi, dy, dx)
           ELSE AngleFloor(lo, mid - 1, dy, dx)

\* atan2(dy, dx) in angle units: the whole number k of units at or below the
\* angle, and whether the angle is k exactly.
Atan2(dy, dx) ==
  IF dx = 0 /\ dy = 0 THEN [k |-> 0, exact |-> TRUE]
  ELSE LET lo == IF dx > 0 /\ dy >= 0 THEN 0
                 ELSE IF dx <= 0 /\ dy >= 0 THEN 16
                 ELSE IF dx < 0 THEN -32
                 ELSE -16
           hi == IF lo = 16 THEN 32 ELSE lo + 15
           k  == AngleFloor(lo, hi, dy, dx)
       IN  [k |-> k, exact |-> (Cross(k, dy, dx) = 0)]

\* while (angle - playerA > 3.14159f) angle -= 2.0f * 3.14159f; on the
\* difference d + f, where 0 <= f < 1 and f = 0 iff exact.
RECURSIVE NormDown(_, _)
NormDown(d, exact) ==
  IF d > TURN \div 2 \/ (d = TURN \div 2 /\ ~exact)
  THEN NormDown(d - TURN, exact) ELSE d

\* while (angle - playerA < -3.14159f) angle += 2.0f * 3.14159f;
RECURSIVE NormUp(_)
NormUp(d) == IF d < -(TURN \div 2) THEN NormUp(d + TURN) ELSE d

\* The field-of-view test without the fabs: angle - playerA < playerFOV / 2.0f.
InFOVSigned(tx, ty) ==
  LET b == Atan2(ty - playerY, tx - playerX)
      d == NormUp(NormDown(b.k - playerA, b.exact))
  IN  d < playerFOV \div 2

\* fabs(angle - playerA) < playerFOV / 2.0f for the point (tx, ty).
InFOV(tx, ty) ==
  LET b == Atan2(ty - playerY, tx - playerX)
      d == NormUp(NormDown(b.k - playerA, b.exact))
  IN  /\ d < playerFOV \div 2
      /\ \/ d > -(playerFOV \div 2)
         \/ (d = -(playerFOV \div 2) /\ ~b.exact)

\* The enemies the "Draw enemies" loop projects: alive and in the field of view.
DrawnEnemies ==
  {j \in DOMAIN enemies : enemies[j].alive /\ InFOV(enemies[j].x, enemies[j].y)}

\* aliveEnemies of the stats line.
AliveEnemies == Cardinality({j \in DOMAIN enemies : enemies[j].alive})

\* The bullets the "Draw bullets" loop projects: active and in the field of
\* view by the same test on atan2(bullet.y - playerY, bullet.x - playerX).
ShownBullets ==
  {i \in DOMAIN bullets : bullets[i].active /\ InFOV(bullets[i].x, bullets[i].y)}

Render ==
  /\ pc = "render"
  /\ pc' = "loop"
  /\ hist' = [hist EXCEPT !.drawn = DrawnEnemies, !.counted = AliveEnemies,
                          !.shown = ShownBullets, !.renders = @ + 1]
  /\ UNCHANGED <<screen, proc, ray, platform, map, playerX, playerY, playerA, bullets, enemies,
                 bulletsFired, activeBullets, gameRunning, fElapsedTime,
                 spacePressed, keyIdx, bi, frames, keysRead>>

----------------------------------------------------------------------------
(* render: the ray-casting loop *)

stepSize == [m |-> 13421773, e |-> -27]     \* 0.1f
MaxDepth == [m |-> 2^23, e |-> -19]         \* 16.0f

\* a + b rounded to a single (ties to even), for a = 0 or a.e >= b.e.
FAdd(a, b) ==
  IF a.m = 0 THEN b
  ELSE LET s == a.e - b.e
           q == b.m \div 2^s
           r == b.m % 2^s
           T == a.m + q
       IN  IF T < 2^24
           THEN LET up == 2 * r > 2^s \/ (2 * r = 2^s /\ T % 2 = 1)
                    M  == IF up THEN T + 1 ELSE T
                IN  IF M = 2^24 THEN [m |-> 2^23, e |-> a.e + 1]
                                ELSE [m |-> M, e |-> a.e]
           ELSE LET h  == T \div 2
                    up == T % 2 = 1 /\ (r > 0 \/ h % 2 = 1)
                    M  == IF up THEN h + 1 ELSE h
                IN  IF M = 2^24 THEN [m |-> 2^23, e |-> a.e + 2]
                                ELSE [m |-> M, e |-> a.e + 1]

\* distanceToWall < 16.0f
BelowMaxDepth(d) == d.m = 0 \/ d.e < MaxDepth.e

\* The single d in 2^-24 units: the whole units q, and whether a fraction
\* of a unit is left over.
DFix(d) ==
  LET k == d.e + 24
  IN  IF k >= 0 THEN [q |-> d.m * 2^k, st |-> FALSE]
      ELSE [q |-> d.m \div 2^(-k), st |-> d.m % 2^(-k) # 0]

\* The single nearest to a + f for a whole a >= 0 and a fraction 0 < f < 1.
RoundAbove(a) ==
  LET u == Ulp(a)
      r == a % u
  IN  IF u = 1 THEN a
      ELSE IF 2 * r >= u THEN a - r + u ELSE a - r

\* rayDirX * distanceToWall: the product with a direction component s; it is
\* exact when the component is 0, 1 or -1.  v is the whole part toward zero,
\* st tells that a fraction of a unit goes with it.
RayOffset(s, d) ==
  LET f == DFix(d)
  IN  IF s = SINONE THEN [v |-> f.q, neg |-> FALSE, st |-> f.st]
      ELSE IF s = -SINONE THEN [v |-> f.q, neg |-> TRUE, st |-> f.st]
      ELSE [v |-> Abs(F32(Mul19(f.q, s))), neg |-> s < 0, st |-> FALSE]

\* playerX + rayDirX * distanceToWall stored into the float rayX.
RayPos(p, o) ==
  IF ~o.st THEN F32(IF o.neg THEN p - o.v ELSE p + o.v)
  ELSE LET lo == IF o.neg THEN p - o.v - 1 ELSE p + o.v
       IN  IF lo >= 0 THEN RoundAbove(lo) ELSE -RoundAbove(-lo - 1)

\* rayDirY taken from sin like rayDirX.
RayDirYAsSin(a) == Sin(a)

\* float rayDirX = sin(rayAngle); float rayDirY = cos(rayAngle);
RayDirX(a) == Sin(a)
RayDirY(a) == Cos(a)

\* The columns x = k * renderWidth / 8, whose ray angle is a whole number of
\* angle units: (playerA - playerFOV / 2) + k.
RayColumns == 0..(playerFOV - 1)

\* for (int x = 0; ...): the locals of the next column are initialised.
RayStart ==
  /\ pc = "render"
  /\ ray.phase \in {"idle", "done"}
  /\ LET k == IF ray.phase = "idle" THEN 0 ELSE ray.col + 1
     IN  /\ k \in RayColumns
         /\ ray' = [col |-> k,
                    rayAngle |-> (playerA - playerFOV \div 2) + k,
                    distanceToWall |-> Zero, hitWall |-> FALSE,
                    rayX |-> playerX, rayY |-> playerY, phase |-> "march"]
  /\ UNCHANGED <<screen, proc, platform, map, playerX, playerY, playerA, bullets, enemies,
                 bulletsFired, activeBullets, gameRunning, fElapsedTime,
                 spacePressed, pc, keyIdx, bi, frames, keysRead, hist>>

\* One iteration of while (!hitWall && distanceToWall < 16.0f).
RayMarch ==
  /\ pc = "render"
  /\ ray.phase = "march"
  /\ ~ray.hitWall
  /\ BelowMaxDepth(ray.distanceToWall)
  /\ LET d  == FAdd(ray.distanceToWall, stepSize)
         rx == RayPos(playerX, RayOffset(RayDirX(ray.rayAngle), d))
         ry == RayPos(playerY, RayOffset(RayDirY(ray.rayAngle), d))
     IN  IF rx < 0 \/ rx >= MAP_WIDTH * ONE \/ ry < 0 \/ ry >= MAP_HEIGHT * ONE
         THEN ray' = [ray EXCEPT !.rayX = rx, !.rayY = ry, !.hitWall = TRUE,
                                 !.distanceToWall = MaxDepth]
         ELSE ray' = [ray EXCEPT !.rayX = rx, !.rayY = ry,
                                 !.hitWall = IsWall(map, CInt(ry) * MAP_WIDTH
                                                           + CInt(rx)),
                                 !.distanceToWall = d]
  /\ UNCHANGED <<screen, proc, platform, map, playerX, playerY, playerA, bullets, enemies,
                 bulletsFired, activeBullets, gameRunning, fElapsedTime,
                 spacePressed, pc, keyIdx, bi, frames, keysRead, hist>>

\* The while loop ends: distanceToWall is the depth of the column.
RayStop ==
  /\ pc = "render"
  /\ ray.phase = "march"
  /\ ray.hitWall \/ ~BelowMaxDepth(ray.distanceToWall)
  /\ ray' = [ray EXCEPT !.phase = "done"]
  /\ UNCHANGED <<screen, proc, platform, map, playerX, playerY, playerA, bullets, enemies,
                 bulletsFired, activeBullets, gameRunning, fElapsedTime,
                 spacePressed, pc, keyIdx, bi, frames, keysRead, hist>>

----------------------------------------------------------------------------
(* render: the writes into screenLines, one step per drawing stage.  A cell
   is <<row, column>>. *)

\* Integer division of C++: the quotient is truncated toward zero.
CQuot(a, b) == IF a >= 0 THEN a \div b ELSE -((-a) \div b)

Least(a, b) == IF a <= b THEN a ELSE b

\* int renderWidth = std::min(SCREEN_WIDTH, termWidth); and renderHeight.
renderWidth == Least(SCREEN_WIDTH, screen.termWidth)
renderHeight == Least(SCREEN_HEIGHT, screen.termHeight)

\* screenLines has renderHeight strings of renderWidth characters.
InGrid(c) ==
  /\ 0 <= c[1] /\ c[1] < renderHeight
  /\ 0 <= c[2] /\ c[2] < renderWidth

\* The largest r in lo..hi with r * r <= n, given lo * lo <= n.
RECURSIVE SqrtFloor(_, _, _)
SqrtFloor(lo, hi, n) ==
  IF lo = hi THEN lo
  ELSE LET mid == (lo + hi + 1) \div 2
       IN  IF mid * mid <= n THEN SqrtFloor(mid, hi, n)
                             ELSE SqrtFloor(lo, mid - 1, n)

\* sqrt(dx * dx + dy * dy) from the player to (tx, ty), in 2^-10 map units.
SpriteDistance(tx, ty) ==
  LET ddx == Abs(tx - playerX) \div 2^14
      ddy == Abs(ty - playerY) \div 2^14
  IN  SqrtFloor(0, 2^15, ddx * ddx + ddy * ddy)

\* (int)((angle - playerA + playerFOV / 2.0f) / playerFOV * renderWidth), on
\* the whole angle units of the difference.
SpriteCenter(tx, ty) ==
  LET b == Atan2(ty - playerY, tx - playerX)
      d == NormUp(NormDown(b.k - playerA, b.exact))
  IN  CQuot((d + playerFOV \div 2) * renderWidth, playerFOV)

\* The wall, ceiling and floor characters: every row of every column.
WallWrites ==
  {<<y, x>> : y \in 0..(renderHeight - 1), x \in 0..(renderWidth - 1)}

\* The 'E' block of enemy j, behind the test of drawX and drawY.
EnemyWrites(j) ==
  LET dist        == SpriteDistance(enemies[j].x, enemies[j].y)
      enemyHeight == IF dist = 0 THEN 0 ELSE (renderHeight * 2^10) \div dist
      enemyCenter == SpriteCenter(enemies[j].x, enemies[j].y)
      block == {<<renderHeight \div 2 - enemyHeight \div 2 + y,
                  enemyCenter - enemyHeight \div 4 + x>> :
                  y \in 0..(Least(enemyHeight, renderHeight) - 1),
                  x \in 0..(Least(enemyHeight \div 2, renderWidth) - 1)}
  IN  {c \in block : c[2] >= 0 /\ c[2] < renderWidth
                       /\ c[1] >= 0 /\ c[1] < renderHeight}

mapStartX == renderWidth - MAP_WIDTH - 3

\* if (mapStartX > renderWidth / 2 && miniMapHeight + 2 < renderHeight)
MiniMapFits == mapStartX > renderWidth \div 2 /\ MAP_HEIGHT + 2 < renderHeight

\* The mini-map: frame and content behind the test of screenX and y, the
\* player mark behind its own test, and the label "MAP" in row 0.
MiniMapWrites ==
  IF ~MiniMapFits THEN {}
  ELSE LET frame == {<<y, mapStartX + x - 1>> :
                       y \in 0..(MAP_HEIGHT + 1), x \in 0..(MAP_WIDTH + 1)}
           mark  == <<CInt(playerY) + 1, CInt(mapStartX * ONE + playerX)>>
       IN  {c \in frame : c[2] >= 0 /\ c[2] < renderWidth /\ c[1] < renderHeight}
             \cup {c \in {mark} : c[1] >= 0 /\ c[1] < renderHeight
                                   /\ c[2] >= 0 /\ c[2] < renderWidth}
             \cup {<<0, mapStartX + i>> : i \in {k \in 0..2 :
                                                  mapStartX + k < renderWidth}}

\* A square of half-width r around the middle row and the column center,
\* behind the test of y and x.
Blob(center, r) ==
  {c \in {<<renderHeight \div 2 + y, center + x>> : y \in (-r)..r, x \in (-r)..r} :
     c[1] >= 0 /\ c[1] < renderHeight /\ c[2] >= 0 /\ c[2] < renderWidth}

\* The 'O' block of bullet i, the '*' blocks of its trail points 1..4 that
\* are in the field of view, and the banner in row 2 from column 20.
BulletWrites(i) ==
  LET b == bullets[i]
  IN  Blob(SpriteCenter(b.x, b.y), 3)
        \cup UNION {Blob(SpriteCenter(b.trailX[k], b.trailY[k]), 1) :
                      k \in {n \in 2..BULLET_TRAIL_LENGTH :
                               InFOV(b.trailX[n], b.trailY[n])}}
        \cup {<<2, k + 20>> : k \in {n \in 0..24 : n + 20 < renderWidth}}

Digits(n) == IF n < 10 THEN 1 ELSE 2

\* "FPS: X | Enemies: " aliveEnemies " | Bullets Fired: " bulletsFired
\* " | Active Bullets: " activeBullets
StatsLength ==
  18 + Digits(AliveEnemies) + 18 + Digits(bulletsFired) + 19
     + Digits(activeBullets)

\* The crosshair behind its test, and the stats line in row 0.
HudWrites ==
  (IF renderHeight \div 2 < renderHeight /\ renderWidth \div 2 < renderWidth
   THEN {<<renderHeight \div 2, renderWidth \div 2>>} ELSE {})
    \cup {<<0, k>> : k \in {n \in 0..(StatsLength - 1) : n < renderWidth}}

TermWidths == {0, 1, 20, 21, 40, 120, 200}
TermHeights == {0, 1, 2, 3, 19, 20, 40, 50}

\* One stage of render: the cells it writes, and the stage that follows.
Draw(stage, cells, next) ==
  /\ pc = "render"
  /\ screen.stage = stage
  /\ screen' = [screen EXCEPT !.stage = next,
                              !.stray = @ \cup {c \in cells : ~InGrid(c)}]
  /\ UNCHANGED <<ray, platform, map, playerX, playerY, playerA, bullets,
                 enemies, bulletsFired, activeBullets, gameRunning,
                 fElapsedTime, spacePressed, pc, keyIdx, bi, frames, keysRead,
                 proc, hist>>

\* getTerminalSize(termWidth, termHeight) and the sizing of screenLines.
GetSize ==
  /\ pc = "render"
  /\ screen.stage = "idle"
  /\ \E w \in TermWidths, h \in TermHeights :
       screen' = [termWidth |-> w, termHeight |-> h, stage |-> "walls",
                  stray |-> {}]
  /\ UNCHANGED <<ray, platform, map, playerX, playerY, playerA, bullets,
                 enemies, bulletsFired, activeBullets, gameRunning,
                 fElapsedTime, spacePressed, pc, keyIdx, bi, frames, keysRead,
                 proc, hist>>

DrawWalls == Draw("walls", WallWrites, "enemies")
DrawEnemies ==
  Draw("enemies", UNION {EnemyWrites(j) : j \in DrawnEnemies}, "minimap")
DrawMiniMap == Draw("minimap", MiniMapWrites, "bullets")
DrawBullets ==
  Draw("bullets", UNION {BulletWrites(i) : i \in ShownBullets}, "hud")
DrawHud == Draw("hud", HudWrites, "shown")

\* The buffer is printed and render returns.
Present ==
  /\ pc = "render"
  /\ screen.stage = "shown"
  /\ pc' = "loop"
  /\ screen' = [screen EXCEPT !.stage = "idle"]
  /\ hist' = [hist EXCEPT !.drawn = DrawnEnemies, !.counted = AliveEnemies,
                          !.shown = ShownBullets, !.renders = @ + 1]
  /\ UNCHANGED <<ray, platform, map, playerX, playerY, playerA, bullets,
                 enemies, bulletsFired, activeBullets, gameRunning,
                 fElapsedTime, spacePressed, keyIdx, bi, frames, keysRead,
                 proc>>

----------------------------------------------------------------------------
(* main: the game loop *)

\* A loop that starts its next frame without testing gameRunning.
BeginFrameUntested ==
  /\ pc = "loop"
  /\ frames < MaxFrames
  /\ \E e \in ElapsedSet : fElapsedTime' = e
  /\ frames' = frames + 1
  /\ pc' = "input"
  /\ keyIdx' = 1
  /\ hist' = [hist EXCEPT !.lastCmd = "none", !.rejected = FALSE, !.shots = 0,
                          !.slot = 0, !.outcome = "none", !.victim = 0]
  /\ UNCHANGED <<screen, proc, ray, platform, map, playerX, playerY, playerA, bullets, enemies,
                 bulletsFired, activeBullets, gameRunning, spacePressed, bi,
                 keysRead>>

\* while (gameRunning): a frame starts and measures its elapsed time.
BeginFrame ==
  /\ pc = "loop"
  /\ gameRunning
  /\ frames < MaxFrames
  /\ \E e \in ElapsedSet : fElapsedTime' = e
  /\ frames' = frames + 1
  /\ pc' = "input"
  /\ keyIdx' = 1
  /\ hist' = [hist EXCEPT !.lastCmd = "none", !.rejected = FALSE, !.shots = 0,
                          !.slot = 0, !.outcome = "none", !.victim = 0]
  /\ UNCHANGED <<screen, proc, ray, platform, map, playerX, playerY, playerA, bullets, enemies,
                 bulletsFired, activeBullets, gameRunning, spacePressed, bi,
                 keysRead>>

\* main before the loop.  Windows: CreateConsoleScreenBuffer gives a handle or
\* INVALID_HANDLE_VALUE, and on the latter main returns 1.
EnterLoop ==
  /\ pc = "start"
  /\ \E created \in (IF platform = "windows" THEN BOOLEAN ELSE {TRUE}) :
       IF created
       THEN pc' = "loop" /\ UNCHANGED proc
       ELSE pc' = "done" /\ proc' = [proc EXCEPT !.exit = "1"]
  /\ UNCHANGED <<screen, ray, platform, map, playerX, playerY, playerA, bullets, enemies,
                 bulletsFired, activeBullets, gameRunning, fElapsedTime,
                 spacePressed, keyIdx, bi, frames, keysRead, hist>>

\* A signal whose default action terminates the process arrives between two
\* frames: main installs no handler and registers no exit function.
Killed ==
  /\ pc = "loop"
  /\ pc' = "killed"
  /\ proc' = [proc EXCEPT !.exit = "signal"]
  /\ UNCHANGED <<screen, ray, platform, map, playerX, playerY, playerA, bullets, enemies,
                 bulletsFired, activeBullets, gameRunning, fElapsedTime,
                 spacePressed, keyIdx, bi, frames, keysRead, hist>>

\* The loop test fails: clean up (Unix: restoreTerminal) and return 0.
ExitLoop ==
  /\ pc = "loop"
  /\ ~gameRunning
  /\ pc' = "done"
  /\ proc' = [(IF platform = "unix" THEN restoreTerminal(proc) ELSE proc)
                EXCEPT !.exit = "0"]
  /\ UNCHANGED <<screen, ray, platform, map, playerX, playerY, playerA, bullets, enemies,
                 bulletsFired, activeBullets, gameRunning, fElapsedTime,
                 spacePressed, keyIdx, bi, frames, keysRead, hist>>

UnixChars == {"w", "s", "a", "d", "q", "e", " ", "ESC", "x"}

\* The effect of one command of the switch (c).
Command(c, h) ==
  CASE c \in {"w", "s", "a", "d"} -> Move(c, h)
    [] c \in {"q", "e"} -> Turn(c, h)
    [] c = " " -> Fire(h)
    [] c = "ESC" -> Quit(h)
    [] OTHER -> /\ hist' = [h EXCEPT !.lastCmd = "other", !.rejected = FALSE]
                /\ UNCHANGED <<playerX, playerY, playerA, bullets, bulletsFired,
                               activeBullets, gameRunning, spacePressed>>

\* Unix: while (read(STDIN_FILENO, &c, 1) > 0) switch (c) ...
ReadKey ==
  /\ pc = "input"
  /\ platform = "unix"
  /\ keysRead < MaxKeys
  /\ \E c \in UnixChars : Command(c, hist)
  /\ keysRead' = keysRead + 1
  /\ UNCHANGED <<screen, proc, ray, platform, map, enemies, fElapsedTime, pc, keyIdx, bi, frames>>

\* Unix: read returns no character.
EndInput ==
  /\ pc = "input"
  /\ platform = "unix"
  /\ pc' = "update"
  /\ bi' = 1
  /\ UNCHANGED <<screen, proc, ray, platform, map, playerX, playerY, playerA, bullets, enemies,
                 bulletsFired, activeBullets, gameRunning, fElapsedTime,
                 spacePressed, keyIdx, frames, keysRead, hist>>

\* The keys of the Windows build in the order main tests them.
WinKeys == <<"w", "s", "a", "d", "q", "e", " ", "ESC">>

\* Windows: the next if (GetAsyncKeyState(key) & 0x8000) ...
WinPoll ==
  /\ pc = "input"
  /\ platform = "windows"
  /\ \E down \in BOOLEAN :
       LET key == WinKeys[keyIdx]
           h   == IF key = " "
                  THEN [hist EXCEPT !.hold = IF down THEN @ + 1 ELSE 0]
                  ELSE hist
       IN  IF down
           THEN /\ keysRead < MaxKeys
                /\ keysRead' = keysRead + 1
                /\ IF key = " " THEN FireWindows(h) ELSE Command(key, h)
           ELSE /\ hist' = h
                /\ UNCHANGED <<playerX, playerY, playerA, bullets, bulletsFired,
                               activeBullets, gameRunning, spacePressed, keysRead>>
  /\ IF keyIdx < Len(WinKeys)
     THEN keyIdx' = keyIdx + 1 /\ UNCHANGED <<pc, bi>>
     ELSE keyIdx' = 1 /\ pc' = "update" /\ bi' = 1
  /\ UNCHANGED <<screen, proc, ray, platform, map, enemies, fElapsedTime, frames>>

Next ==
  \/ BeginFrame
  \/ ReadKey
  \/ EndInput
  \/ WinPoll
  \/ UpdateBullet
  \/ EndUpdate
  \/ Render
  \/ ExitLoop
  \/ EnterLoop
  \/ Killed

Spec == Init /\ [][Next]_vars

----------------------------------------------------------------------------
(* Firing and bullet updates alone: the Unix build with a player who only
   presses space, from each of the headings of HeadingSet. *)

MaxShots == 15             \* space characters received over a run

HeadingSet == {0, 8}

InitBullets ==
  /\ platform = "unix"
  /\ map = GameMap
  /\ playerX = 8 * ONE
  /\ playerY = 8 * ONE
  /\ playerA \in HeadingSet
  /\ bullets = [i \in 1..MAX_BULLETS |-> InitBullet]
  /\ enemies = InitEnemies
  /\ bulletsFired = 0
  /\ activeBullets = 0
  /\ gameRunning = TRUE
  /\ fElapsedTime = 0
  /\ spacePressed = FALSE
  /\ pc = "loop"
  /\ keyIdx = 1
  /\ bi = 1
  /\ frames = 0
  /\ keysRead = 0
  /\ ray = InitRay
  /\ screen = InitScreen
  /\ proc = initTerminal(InitProc)
  /\ hist = InitHist

\* ReadKey when the character read is a space.
ReadSpace ==
  /\ pc = "input"
  /\ platform = "unix"
  /\ keysRead < MaxShots
  /\ Command(" ", hist)
  /\ keysRead' = keysRead + 1
  /\ UNCHANGED <<screen, proc, ray, platform, map, enemies, fElapsedTime, pc, keyIdx, bi, frames>>

NextBullets ==
  \/ BeginFrame
  \/ ReadSpace
  \/ EndInput
  \/ UpdateBullet
  \/ EndUpdate
  \/ Render

SpecBullets == InitBullets /\ [][NextBullets]_vars

----------------------------------------------------------------------------
(* The ray-casting loop alone, as a function of the map, the player's
   position and the player's heading. *)

RayMaps == {GameMap, BorderMap}

\* Player positions in quarter map units: the start, a corner, between walls.
RayPositions == {<<32, 32>>, <<6, 6>>, <<50, 14>>}

RayHeadings == {0, 8, 16, 44}

InitRays ==
  /\ platform = "unix"
  /\ map \in RayMaps
  /\ \E p \in RayPositions :
       playerX = p[1] * (ONE \div 4) /\ playerY = p[2] * (ONE \div 4)
  /\ playerA \in RayHeadings
  /\ bullets = [i \in 1..MAX_BULLETS |-> InitBullet]
  /\ enemies = InitEnemies
  /\ bulletsFired = 0
  /\ activeBullets = 0
  /\ gameRunning = TRUE
  /\ fElapsedTime = 1
  /\ spacePressed = FALSE
  /\ pc = "render"
  /\ keyIdx = 1
  /\ bi = 1
  /\ frames = 1
  /\ keysRead = 0
  /\ ray = InitRay
  /\ screen = InitScreen
  /\ proc = initTerminal(InitProc)
  /\ hist = InitHist

NextRays ==
  \/ RayStart
  \/ RayMarch
  \/ RayStop

SpecRay == InitRays /\ [][NextRays]_vars

----------------------------------------------------------------------------
(* One frame of the Unix build with a player who only presses space, from
   the headings of DrawHeadings, rendered stage by stage on a terminal of any
   of the sizes TermWidths x TermHeights. *)

DrawHeadings == {0, 8}

InitDraw ==
  /\ platform = "unix"
  /\ map = GameMap
  /\ playerX = 8 * ONE
  /\ playerY = 8 * ONE
  /\ playerA \in DrawHeadings
  /\ bullets = [i \in 1..MAX_BULLETS |-> InitBullet]
  /\ enemies = InitEnemies
  /\ bulletsFired = 0
  /\ activeBullets = 0
  /\ gameRunning = TRUE
  /\ fElapsedTime \in ElapsedSet
  /\ spacePressed = FALSE
  /\ pc = "input"
  /\ keyIdx = 1
  /\ bi = 1
  /\ frames = 1
  /\ keysRead = 0
  /\ ray = InitRay
  /\ screen = InitScreen
  /\ proc = initTerminal(InitProc)
  /\ hist = InitHist

NextDraw ==
  \/ ReadSpace
  \/ EndInput
  \/ UpdateBullet
  \/ EndUpdate
  \/ GetSize
  \/ DrawWalls
  \/ DrawEnemies
  \/ DrawMiniMap
  \/ DrawBullets
  \/ DrawHud
  \/ Present

SpecDraw == InitDraw /\ [][NextDraw]_vars

----------------------------------------------------------------------------
(* The flight of one bullet on the Unix build: the player, at one of
   RayPositions with any heading, has just fired, and frames follow one
   another with no further key and a steady elapsed time, up to MaxUpdates
   calls of updateBullets. *)

MaxUpdates == 128

FlightHeadings == 0..(TURN - 1)

InitFlight ==
  /\ platform = "unix"
  /\ map = GameMap
  /\ \E p \in RayPositions :
       playerX = p[1] * (ONE \div 4) /\ playerY = p[2] * (ONE \div 4)
  /\ playerA \in FlightHeadings
  /\ bullets = [i \in 1..MAX_BULLETS |-> IF i = 1 THEN FiredBullet ELSE InitBullet]
  /\ enemies = InitEnemies
  /\ bulletsFired = 1
  /\ activeBullets = 1
  /\ gameRunning = TRUE
  /\ fElapsedTime \in ElapsedSet
  /\ spacePressed = FALSE
  /\ pc = "input"
  /\ keyIdx = 1
  /\ bi = 1
  /\ frames = 1
  /\ keysRead = 1
  /\ ray = InitRay
  /\ screen = InitScreen
  /\ proc = initTerminal(InitProc)
  /\ hist = [InitHist EXCEPT !.lastCmd = "fire", !.shots = 1]

\* while (gameRunning): the next frame starts, as long as the one before.
NextFrame ==
  /\ pc = "loop"
  /\ gameRunning
  /\ hist.updates < MaxUpdates
  /\ pc' = "input"
  /\ keyIdx' = 1
  /\ hist' = [hist EXCEPT !.lastCmd = "none", !.rejected = FALSE, !.shots = 0,
                          !.slot = 0, !.outcome = "none", !.victim = 0]
  /\ UNCHANGED <<screen, proc, ray, platform, map, playerX, playerY, playerA,
                 bullets, enemies, bulletsFired, activeBullets, gameRunning,
                 fElapsedTime, spacePressed, bi, frames, keysRead>>

NextFlight ==
  \/ NextFrame
  \/ EndInput
  \/ UpdateBullet
  \/ EndUpdate
  \/ Render

SpecFlight == InitFlight /\ [][NextFlight]_vars

----------------------------------------------------------------------------
(* Properties *)

\* The map cell (floor(x), floor(y)) of a position inside the map.
CellIndex(x, y) == (y \div ONE) * MAP_WIDTH + (x \div ONE)

StrictlyInside(x, y) ==
  0 < x /\ x < MAP_WIDTH * ONE /\ 0 < y /\ y < MAP_HEIGHT * ONE

(* C1: after any sequence of frames the player's position lies strictly
   inside the map, 0 < x < 16 and 0 < y < 16, and the map cell
   (floor(x), floor(y)) is not a wall.  The elapsed time of a frame is any
   value of ElapsedSet. *)
C1_PlayerInsideMap ==
  /\ StrictlyInside(playerX, playerY)
  /\ ~IsWall(map, CellIndex(playerX, playerY))

(* C2: the counter activeBullets equals the number of pool slots whose
   active flag is true, and 0 <= activeBullets <= MAX_BULLETS. *)
C2_ActiveCount ==
  /\ activeBullets = Cardinality({i \in DOMAIN bullets : bullets[i].active})
  /\ 0 <= activeBullets
  /\ activeBullets <= MAX_BULLETS


\* A state of the bullet-only runs in which the pool was filled, lost
\* bullets to updateBullets and was filled up again.
C2_PoolRefilled ==
  /\ bulletsFired > MAX_BULLETS
  /\ activeBullets = MAX_BULLETS
  /\ pc = "input"

(* C3: in the first frame, from the empty pool, once 10 or more space
   characters have called shootBullet with no update in between there are
   exactly 10 active bullets and bulletsFired is 10; a call made while the pool
   is full changes no slot and neither counter. *)
C3_PoolDropsShots ==
  /\ [](( frames = 1 /\ pc = "input" /\ hist.shots >= MAX_BULLETS)
          => /\ activeBullets = MAX_BULLETS
             /\ bulletsFired = MAX_BULLETS
             /\ \A i \in DOMAIN bullets : bullets[i].active)
  /\ [][(activeBullets = MAX_BULLETS /\ hist'.shots = hist.shots + 1)
          => UNCHANGED <<bullets, activeBullets, bulletsFired>>]_vars

\* Fifteen calls in the first frame: ten bullets, five dropped shots.
C3_FifteenShots ==
  /\ frames = 1
  /\ pc = "input"
  /\ hist.shots = 15
  /\ activeBullets = MAX_BULLETS
  /\ bulletsFired = MAX_BULLETS

\* The cell test of a position, for a position inside the map.
FreeCell(x, y) ==
  /\ 0 <= x /\ x < MAP_WIDTH * ONE
  /\ 0 <= y /\ y < MAP_HEIGHT * ONE
  /\ ~IsWall(map, CellIndex(x, y))

\* The step is an iteration of the range-for of updateBullets.
BulletStep == pc = "update" /\ bi' > bi

(* C4: an enemy whose alive flag is false keeps it false in every step; a
   bullet that updateBullets moves to a free cell with no alive enemy within
   range stays active and the enemy an iteration kills was alive; render
   draws only alive enemies and counts exactly the alive ones. *)
C4_DeadStaysDead ==
  [][ /\ \A j \in DOMAIN enemies : ~enemies[j].alive => ~enemies'[j].alive
      /\ BulletStep =>
           LET b == bullets'[bi' - 1]
           IN  /\ hist'.outcome = "enemy" => enemies[hist'.victim].alive
               /\ ( /\ FreeCell(b.x, b.y)
                    /\ \A j \in DOMAIN enemies :
                         Near(b, enemies[j]) => ~enemies[j].alive )
                    => b.active
      /\ (pc = "render" /\ pc' = "loop") =>
           /\ \A j \in hist'.drawn : enemies[j].alive
           /\ hist'.counted =
                Cardinality({j \in DOMAIN enemies : enemies[j].alive})
    ]_vars

\* A bullet has flown on through the place of a dead enemy.
C4_PassedDeadEnemy ==
  /\ hist.slot # 0
  /\ hist.outcome = "fly"
  /\ \E j \in DOMAIN enemies :
       ~enemies[j].alive /\ Near(bullets[hist.slot], enemies[j])

(* C5: on the Windows build, in a frame that finds the space key down when
   the frame before found it down too, shootBullet is not called. *)
C5_FireEdgeTriggered ==
  (platform = "windows" /\ hist.hold >= 2) => hist.shots = 0

\* The number of sample intervals along a bullet's move.
PathSamples == 2^4

\* The point j/PathSamples of the way from the bullet's position before the
\* move (the head of its trail) to its position after it.
PathPoint(b, j) ==
  [x |-> b.trailX[1] + ((b.x - b.trailX[1]) * j) \div PathSamples,
   y |-> b.trailY[1] + ((b.y - b.trailY[1]) * j) \div PathSamples]

\* One of the sampled points of the bullet's last move lies in a wall cell.
CrossesWall(b) ==
  \E j \in 0..PathSamples :
    LET p == PathPoint(b, j)
    IN  /\ 0 <= p.x /\ p.x < MAP_WIDTH * ONE
        /\ 0 <= p.y /\ p.y < MAP_HEIGHT * ONE
        /\ IsWall(map, CellIndex(p.x, p.y))

(* C6: a bullet whose path in this frame's updateBullets crossed a wall cell
   is inactive afterwards. *)
C6_WallStopsBullet ==
  \A i \in DOMAIN bullets :
    (hist.slot = i /\ CrossesWall(bullets[i])) => ~bullets[i].active

(* C7: when an iteration of updateBullets moves a bullet to a free cell
   within 0.5 of at least one alive enemy, the bullet becomes inactive, the
   first alive enemy within range in store order becomes dead, and no other
   enemy and no other bullet changes. *)
C7_HitKillsFirstInRange ==
  [][ BulletStep =>
        LET i    == bi' - 1
            b    == bullets'[i]
            near == {j \in DOMAIN enemies :
                       enemies[j].alive /\ Near(b, enemies[j])}
        IN  (FreeCell(b.x, b.y) /\ near # {}) =>
              /\ ~b.active
              /\ enemies' = [enemies EXCEPT ![Min(near)].alive = FALSE]
              /\ \A k \in DOMAIN bullets : k # i => bullets'[k] = bullets[k]
              /\ activeBullets' = activeBullets - 1
    ]_vars

\* A bullet has just killed an enemy.
C7_EnemyHit ==
  /\ hist.outcome = "enemy"
  /\ ~enemies[hist.victim].alive
  /\ ~bullets[hist.slot].active

(* C8: a movement command that finds a wall in the cell of its candidate
   position leaves playerX, playerY and playerA exactly as they were. *)
C8_RejectRestores ==
  [][(keysRead' = keysRead + 1 /\ hist'.rejected /\ hist'.readOK)
       => (playerX' = playerX /\ playerY' = playerY /\ playerA' = playerA)
    ]_vars

(* C9: every collision test of the player has read the map at a column in
   [0,16) and a row in [0,16). *)
C9_MapReadsInRange == hist.readOK

\* The ray of the scenario: the bordered empty map, the player at (8,8)
\* with heading 0, the column whose ray angle is 0, after its loop has ended.
StraightAheadRay ==
  /\ map = BorderMap
  /\ playerX = 8 * ONE /\ playerY = 8 * ONE /\ playerA = 0
  /\ ray.phase = "done"
  /\ ray.rayAngle = 0

\* | distanceToWall - v | <= 0.1
DepthWithinTenth(v) ==
  LET f == DFix(ray.distanceToWall)
  IN  /\ 10 * (f.q - v) <= ONE - (IF f.st THEN 10 ELSE 0)
      /\ 10 * (v - f.q) <= ONE

(* C10 as stated: in the scenario the distance of the ray straight ahead is
   8.0 within 0.1. *)
C10_DepthIsEight == StraightAheadRay => DepthWithinTenth(8 * ONE)

(* C10: in the scenario the distance of the ray straight ahead is 7.0
   within 0.1: the ray stops at its first sample inside the border row 15,
   whose near face is 7 units ahead. *)
C10_DepthIsSeven == StraightAheadRay => DepthWithinTenth(7 * ONE)

\* The scenario's ray has stopped on a wall cell of the border row.
C10_HitBorderRow ==
  /\ StraightAheadRay
  /\ ray.hitWall
  /\ CInt(ray.rayY) = MAP_HEIGHT - 1
  /\ CInt(ray.rayX) = 8

\* The scenario of the enemy at (10,10) seen from the start position: render
\* has run on the current state and nothing has touched the enemy.
EnemyScenario ==
  /\ pc = "loop"
  /\ frames >= 1
  /\ playerX = 8 * ONE /\ playerY = 8 * ONE
  /\ enemies[1].alive
  /\ enemies[1].x = 10 * ONE /\ enemies[1].y = 10 * ONE

\* atan2(10 - 8, 10 - 8) in angle units: the bearing of the enemy.
EnemyBearing == Atan2(2 * ONE, 2 * ONE).k

(* C11: with the player at (8,8) and the alive enemy at (10,10), render
   classifies the enemy as inside the field of view when the heading is the
   atan2 bearing to it, and as outside when the heading is that bearing
   turned by half a turn either way. *)
C11_FacingEnemy ==
  EnemyScenario =>
    /\ playerA = EnemyBearing => 1 \in hist.drawn
    /\ playerA \in {EnemyBearing + TURN \div 2, EnemyBearing - TURN \div 2}
         => 1 \notin hist.drawn

\* The player has turned to the bearing of the enemy and render has drawn it.
C11_EnemySeen ==
  /\ EnemyScenario
  /\ playerA = EnemyBearing
  /\ 1 \in hist.drawn

(* C12: gameRunning never goes back to true; once it is false the frame in
   progress runs on through updateBullets and render, no new frame starts,
   and from the top of the loop the only exit is the return with status 0, by
   which time every frame started has been updated and rendered once. *)
C12_QuitEndsLoop ==
  /\ [][ /\ ~gameRunning => ~gameRunning'
         /\ ~gameRunning => frames' = frames
         /\ (~gameRunning /\ pc = "input") => pc' \in {"input", "update"}
         /\ (~gameRunning /\ pc = "update") => pc' \in {"update", "render"}
         /\ (~gameRunning /\ pc = "render") => pc' = "loop"
         /\ (~gameRunning /\ pc = "loop") => pc' \in {"done", "killed"}
       ]_vars
  /\ []((pc = "done" /\ ~gameRunning)
          => /\ proc.exit = "0"
             /\ hist.updates = frames
             /\ hist.renders = frames)

\* The process has returned after a frame in which Quit was received.
C12_Returned ==
  /\ pc = "done"
  /\ ~gameRunning
  /\ hist.lastCmd = "quit"
  /\ frames >= 1

(* C13: once the process has terminated after the terminal was put into
   raw mode, restoreTerminal has run exactly once and the terminal is back in
   its prior mode. *)
C13_TerminalRestored ==
  (platform = "unix" /\ pc \in {"done", "killed"})
    => (proc.restores = 1 /\ proc.term = "cooked")

(* C14: whatever size the terminal reports, every cell render has written
   lies inside the buffer: row in [0, renderHeight), column in
   [0, renderWidth). *)
C14_WritesInGrid == screen.stray = {}


(* C15: in an iteration of updateBullets the bounds test, the wall test and
   the enemy loop run in this order and at most one of them takes the
   bullet: a bullet moved out of the map or into a wall cell becomes
   inactive and no enemy changes; an enemy dies only for a bullet in a free
   cell, at most one per iteration; only the bullet of the iteration can
   become inactive, and activeBullets drops by exactly the number of
   bullets that became inactive. *)
C15_OneOutcomePerBullet ==
  [][ BulletStep =>
        LET i      == bi' - 1
            b      == bullets'[i]
            gone   == {k \in DOMAIN bullets :
                         bullets[k].active /\ ~bullets'[k].active}
            killed == {j \in DOMAIN enemies :
                         enemies[j].alive /\ ~enemies'[j].alive}
        IN  /\ ~FreeCell(b.x, b.y) => (~b.active /\ enemies' = enemies)
            /\ Cardinality(killed) <= 1
            /\ killed # {} => (FreeCell(b.x, b.y) /\ ~b.active)
            /\ gone \subseteq {i}
            /\ activeBullets' = activeBullets - Cardinality(gone)
    ]_vars

\* A bullet left the map while an enemy was alive; it is inactive and counted.
C15_LeftTheMap ==
  /\ hist.outcome = "out"
  /\ ~bullets[hist.slot].active
  /\ \E j \in DOMAIN enemies : enemies[j].alive
  /\ activeBullets = Cardinality({k \in DOMAIN bullets : bullets[k].active})


(* C16: on the map of initGame, when the ray march of a column has ended,
   the distanceToWall it reports is above 0 and at most 16.0. *)
C16_DepthInRange ==
  (map = GameMap /\ ray.phase = "done") =>
    /\ ray.distanceToWall.m > 0
    /\ BelowMaxDepth(ray.distanceToWall) \/ ray.distanceToWall = MaxDepth


(* C17: an iteration of updateBullets handles a bullet that was active; after
   it trail[0] is the bullet's position before the move and trail[i] is the
   previous trail[i-1] for i = 1..4; no step of updateBullets changes the
   trail of a bullet that is inactive. *)
C17_TrailShifted ==
  [][ /\ BulletStep =>
           LET old == bullets[bi' - 1]
               new == bullets'[bi' - 1]
           IN  /\ old.active
               /\ new.trailX[1] = old.x /\ new.trailY[1] = old.y
               /\ \A k \in 2..BULLET_TRAIL_LENGTH :
                    /\ new.trailX[k] = old.trailX[k - 1]
                    /\ new.trailY[k] = old.trailY[k - 1]
      /\ pc = "update" =>
           \A k \in DOMAIN bullets :
             ~bullets[k].active =>
               /\ bullets'[k].trailX = bullets[k].trailX
               /\ bullets'[k].trailY = bullets[k].trailY
    ]_vars

\* A bullet was updated whose trail holds two different positions, while
\* another slot holds an inactive bullet.
C17_TrailInUse ==
  /\ pc = "update"
  /\ hist.slot # 0
  /\ LET b == bullets[hist.slot]
     IN  \E k \in 2..BULLET_TRAIL_LENGTH :
           b.trailX[k] # b.trailX[1] \/ b.trailY[k] # b.trailY[1]
  /\ \E k \in DOMAIN bullets : k # hist.slot /\ ~bullets[k].active


\* The step is the command cmd of the input loop.
CommandStep(cmds) ==
  pc = "input" /\ keysRead' = keysRead + 1 /\ hist'.lastCmd \in cmds

(* C18: the map is the one initGame built, in every state; no step of
   updateBullets or render changes playerX, playerY or playerA; a step that
   changes one of them is a movement or a turn command; a turn command leaves
   playerX and playerY alone, a movement command leaves playerA alone, and a
   fire command leaves all three alone. *)
C18_PlayerOwnedByInput ==
  /\ [](map = GameMap)
  /\ [][ /\ map' = map
         /\ pc \in {"update", "render"} =>
              (playerX' = playerX /\ playerY' = playerY /\ playerA' = playerA)
         /\ (playerX' # playerX \/ playerY' # playerY \/ playerA' # playerA) =>
              CommandStep({"w", "s", "a", "d", "q", "e"})
         /\ CommandStep({"q", "e"}) =>
              (playerX' = playerX /\ playerY' = playerY)
         /\ CommandStep({"w", "s", "a", "d"}) => playerA' = playerA
         /\ CommandStep({"fire"}) =>
              (playerX' = playerX /\ playerY' = playerY /\ playerA' = playerA)
    ]_vars

\* The player has moved, turned and fired, and updateBullets and render have
\* run on the bullet since.
C18_AllCommandsUsed ==
  /\ playerX # 8 * ONE \/ playerY # 8 * ONE
  /\ playerA # 0
  /\ bulletsFired > 0
  /\ hist.slot # 0
  /\ hist.renders > 0


(* C19: the player has neither moved nor turned, so every active bullet lies
   straight ahead along (sin playerA, cos playerA); when render has just
   run, each of them was classified as inside the field of view. *)
C19_BulletAheadIsShown ==
  ( /\ pc = "loop"
    /\ hist.renders > 0
    /\ playerX = 8 * ONE /\ playerY = 8 * ONE /\ keysRead = hist.shots )
    => \A i \in DOMAIN bullets : bullets[i].active => i \in hist.shown


\* The larger of the two distances a bullet covered along the axes.
Covered(old, new) ==
  IF Abs(new.x - old.x) >= Abs(new.y - old.y) THEN Abs(new.x - old.x)
                                              ELSE Abs(new.y - old.y)

(* C20: every active bullet becomes inactive after finitely many calls of
   updateBullets with a positive elapsed time: a bullet that a call leaves
   active keeps its velocity and has moved along it, by at least 1/16 of a
   map unit on one axis, while it stays inside the 16 x 16 map; and after
   MaxUpdates calls no bullet is active. *)
C20_BulletFreedInTime ==
  /\ [](hist.updates >= MaxUpdates => activeBullets = 0)
  /\ [](\A i \in DOMAIN bullets : bullets[i].active =>
           (fElapsedTime > 0 /\ FreeCell(bullets[i].x, bullets[i].y)))
  /\ [][ (BulletStep /\ bullets'[bi' - 1].active) =>
           LET old == bullets[bi' - 1]
               new == bullets'[bi' - 1]
           IN  /\ new.dx = old.dx /\ new.dy = old.dy
               /\ new.x = old.x \/ (new.x > old.x) = (old.dx > 0)
               /\ new.y = old.y \/ (new.y > old.y) = (old.dy > 0)
               /\ 16 * Covered(old, new) >= ONE
      ]_vars

\* The bullet flew for more than one call of updateBullets and then became
\* inactive: its slot is free again.
C20_FlightEnded ==
  /\ bulletsFired = 1
  /\ activeBullets = 0
  /\ hist.updates > 1
  /\ 1 \in FreeSlots

============================================================================
